---- MODULE Spec2Model ----
(***************************************************************************)
(* Schema cache (js/state/schemaCache.js), property resolver stubs and the *)
(* facility loader of the Tandem REST testbed, as a state machine.         *)
(* Every await of the source is a step boundary: a call runs to its first  *)
(* await in one action and each settled request resumes it in another.     *)
(***************************************************************************)
EXTENDS Integers, Sequences, FiniteSets, TLC

\* ------------------------------------------------------------------ bounds
MaxCalls == 3        \* loadSchemaForModel invocations in one behaviour
MaxClears == 1       \* clearSchemaCache invocations in one behaviour
MaxStubCalls == 1    \* stub invocations in one behaviour
MaxClicks == 2       \* clicks on stub triggers in one behaviour

\* ------------------------------------------------------------- data model
Models == {"m1", "m2", "m3"}
Facilities == {"f1", "f2"}

\* facilityData.links of each facility: the models it aggregates.
ModelsOf(f) == IF f = "f1" THEN << "m1", "m2" >> ELSE << "m3" >>

\* DataTypes (schemaCache.js:179-184)
INTEGER == 1
FLOAT == 2
BOOLEAN_T == 3
STRING_T == 20

Attr(id, category, name, dataType) ==
    [id |-> id, category |-> category, name |-> name, dataType |-> dataType]

\* Attribute lists the schema endpoint serves.  SchemaA has one (Id, Mark);
\* SchemaB has two descriptors for (Id, Mark), one that differs from it only
\* in letter case, and repeats the id "z:c".
SchemaA == << Attr("z:a", "Id", "Mark", STRING_T),
              Attr("z:b", "Dim", "Width", FLOAT) >>
SchemaB == << Attr("z:c", "Id", "Mark", INTEGER),
              Attr("z:d", "Id", "Mark", STRING_T),
              Attr("z:e", "ID", "mark", STRING_T),
              Attr("z:c", "Dim", "Mark", BOOLEAN_T) >>

\* A parsed JSON body of the schema endpoint: an object with or without an
\* "attributes" member.
Body(has, attrs) == [hasAttributes |-> has, attributes |-> attrs]
NoAttributesBody == Body(FALSE, << >>)
SchemaBodies == { Body(TRUE, SchemaA), Body(TRUE, SchemaB), NoAttributesBody }

\* What a request can end in.  "networkError": fetch() rejects; "non2xx":
\* a response with ok = false; "unparsable": response.json() rejects;
\* "body": response.json() resolves with the body.
Outcome(kind, body) == [kind |-> kind, body |-> body]
FetchOutcomes == { Outcome("networkError", NoAttributesBody),
                   Outcome("non2xx", NoAttributesBody),
                   Outcome("ok", NoAttributesBody) }
JsonOutcomes == { Outcome("unparsable", NoAttributesBody) }
                \cup { Outcome("body", b) : b \in SchemaBodies }

VARIABLES
    schemaCache,   \* schemaCache.js:11, in key insertion order: <<[urn, entry]>>
    calls,         \* loadSchemaForModel invocations, in call order
    batches,       \* loadSchemasForFacility invocations, in call order
    epoch,         \* number of clearSchemaCache calls so far
    fetchCount,    \* schema GETs issued by the cache per model since the last clear
    dropped,       \* the models whose entries the last clear removed
    lastLookup,    \* what the last synchronous read of the cache returned
    currentFacilityURN,  \* app.js: the facility selected last ("none" at start)
    facLoads,      \* loadFacility invocations, in call order
    shown,         \* what the page shows: facility info, stub context, overlay
    form,          \* the type-aware value input of a stub form (stubUI.js:210-312)
    exec,          \* the stub triggers of the menus and the executions they started
    stub,         \* the running (or last) resolver stub invocation
    stubLog        \* the requests the resolver stubs issued, in order

cacheVars == << schemaCache, calls, batches, epoch, fetchCount, dropped >>
appVars == << currentFacilityURN, facLoads, shown, form, exec >>
stubVars == << stub, stubLog >>
vars == << cacheVars, lastLookup, appVars, stubVars >>

\* ----------------------------------------------------- the cache object
CacheHas(cache, urn) == \E i \in DOMAIN cache : cache[i].urn = urn

CacheGet(cache, urn) ==
    cache[CHOOSE i \in DOMAIN cache : cache[i].urn = urn].entry

\* schemaCache[modelURN] = entry: an existing key keeps its position, a new
\* key goes last.
CachePut(cache, urn, entry) ==
    IF CacheHas(cache, urn)
    THEN [i \in DOMAIN cache |->
            IF cache[i].urn = urn THEN [urn |-> urn, entry |-> entry] ELSE cache[i]]
    ELSE Append(cache, [urn |-> urn, entry |-> entry])

CacheKeys(cache) == { cache[i].urn : i \in DOMAIN cache }

\* ------------------------------------------------------------ fetchSchema
\* fetchSchema's return value for the way its request ended
\* (schemaCache.js:23-35): every failure is caught and becomes
\* { attributes: [] }.
Returned(body) == [threw |-> FALSE, data |-> body]
Thrown == [threw |-> TRUE, data |-> NoAttributesBody]

fetchSchemaUncaught(outcome) ==
    IF outcome.kind = "body" THEN Returned(outcome.body) ELSE Thrown

fetchSchemaThrowsOnStatus(outcome) ==
    IF outcome.kind = "body" THEN Returned(outcome.body)
    ELSE IF outcome.kind = "non2xx" THEN Thrown
    ELSE Returned(Body(TRUE, << >>))

fetchSchema(outcome) ==
    IF outcome.kind = "body"
    THEN Returned(outcome.body)
    ELSE Returned(Body(TRUE, << >>))

\* ----------------------------------------------------- loadSchemaForModel
\* An index that keeps the first attribute of each id.
RECURSIVE buildLookupKeepFirst(_, _)
buildLookupKeepFirst(attrs, n) ==
    IF n = 0 THEN << >>
    ELSE LET prev == buildLookupKeepFirst(attrs, n - 1)
             a    == attrs[n]
         IN  [k \in (DOMAIN prev) \cup {a.id} |->
                IF k \in DOMAIN prev THEN prev[k] ELSE a]

\* lookup.set(attr.id, attr) for each attribute in list order
\* (schemaCache.js:52-57): a later attribute replaces an earlier one of the
\* same id.
RECURSIVE buildLookup(_, _)
buildLookup(attrs, n) ==
    IF n = 0 THEN << >>
    ELSE LET prev == buildLookup(attrs, n - 1)
             a    == attrs[n]
         IN  [k \in (DOMAIN prev) \cup {a.id} |-> IF k = a.id THEN a ELSE prev[k]]

\* The entry built from the object fetchSchema returned (schemaCache.js:52-62).
\* id is the identity of the new object (the call that built it); epoch is
\* the number of clears that had run when its fetch was issued.
makeEntry(c, data, ep) ==
    [ id         |-> c,
      attributes |-> IF data.hasAttributes THEN data.attributes ELSE << >>,
      lookup     |-> IF data.hasAttributes
                     THEN buildLookup(data.attributes, Len(data.attributes))
                     ELSE << >>,
      epoch      |-> ep ]

cacheNeverHit(cache, urn) == FALSE

\* Does a call that finds `cache` return the cached entry at once
\* (schemaCache.js:45-47)?
cacheHit(cache, urn) == CacheHas(cache, urn)

\* loadSchemaForModel up to its first await (schemaCache.js:45-49).
startCall(cache, urn, b, ep) ==
    IF cacheHit(cache, urn)
    THEN [urn |-> urn, batch |-> b, pc |-> "resolved", hit |-> TRUE,
          epoch |-> ep, got |-> Outcome("cached", NoAttributesBody),
          result |-> << CacheGet(cache, urn) >>]
    ELSE [urn |-> urn, batch |-> b, pc |-> "fetch", hit |-> FALSE,
          epoch |-> ep, got |-> Outcome("pending", NoAttributesBody),
          result |-> << >>]

Issued(newCalls, urn) ==
    Cardinality({ i \in DOMAIN newCalls :
                    newCalls[i].urn = urn /\ ~newCalls[i].hit })

loadSchemaForModel(urn) ==
    /\ Len(calls) < MaxCalls
    /\ LET c == startCall(schemaCache, urn, 0, epoch)
       IN  /\ calls' = Append(calls, c)
           /\ fetchCount' = [fetchCount EXCEPT ![urn] = @ + Issued(<< c >>, urn)]
    /\ UNCHANGED << schemaCache, batches, epoch, dropped, lastLookup, appVars, stubVars >>

\* The cache after call c stored the entry built from `data`
\* (schemaCache.js:59-62).
storeEntry(cache, c, urn, data, ep) == CachePut(cache, urn, makeEntry(c, data, ep))

\* The rest of loadSchemaForModel once fetchSchema has returned `ret`
\* (schemaCache.js:49-66).
Complete(c, outcome, ret) ==
    IF ret.threw
    THEN /\ calls' = [calls EXCEPT ![c].pc = "rejected", ![c].got = outcome]
         /\ UNCHANGED schemaCache
    ELSE /\ schemaCache' = storeEntry(schemaCache, c, calls[c].urn, ret.data, calls[c].epoch)
         /\ calls' = [calls EXCEPT ![c].pc = "resolved",
                                   ![c].got = outcome,
                                   ![c].result = IF CacheHas(schemaCache', calls[c].urn)
                                                 THEN << CacheGet(schemaCache', calls[c].urn) >>
                                                 ELSE << >>]

\* await fetch(requestPath, ...) settles (schemaCache.js:24-28).
FetchSettles(c, outcome) ==
    /\ c \in DOMAIN calls
    /\ calls[c].pc = "fetch"
    /\ IF outcome.kind = "ok"
       THEN /\ calls' = [calls EXCEPT ![c].pc = "json"]
            /\ UNCHANGED schemaCache
       ELSE Complete(c, outcome, fetchSchema(outcome))
    /\ UNCHANGED << batches, epoch, fetchCount, dropped, lastLookup, appVars, stubVars >>

\* await response.json() settles (schemaCache.js:30-31).
JsonSettles(c, outcome) ==
    /\ c \in DOMAIN calls
    /\ calls[c].pc = "json"
    /\ Complete(c, outcome, fetchSchema(outcome))
    /\ UNCHANGED << batches, epoch, fetchCount, dropped, lastLookup, appVars, stubVars >>

\* ---------------------------------------------------- loadSchemasForFacility
\* The model lists a caller passes: the links of a facility, each model once.
ModelLists == { ModelsOf(f) : f \in Facilities } \cup { << "m2", "m3", "m1" >> }

\* The calls one loadSchemasForFacility invocation made.
BatchCalls(b) == (batches[b].first + 1) .. (batches[b].first + batches[b].started)

\* The models whose loadSchemaForModel call the map starts before the
\* function first awaits (schemaCache.js:78): all of them.
startedModels(models) == models

promiseRaceSettled(b) ==
    \E c \in BatchCalls(b) : calls[c].pc \in {"resolved", "rejected"}

\* Is `await Promise.all(promises)` ready to resume (schemaCache.js:79)?
\* Promise.all rejects with the first rejection and resolves once every
\* promise has resolved.
promiseAllSettled(b) ==
    \/ \E c \in BatchCalls(b) : calls[c].pc = "rejected"
    \/ \A c \in BatchCalls(b) : calls[c].pc = "resolved"

RECURSIVE totalAttributes(_, _)
totalAttributes(cache, n) ==
    IF n = 0 THEN 0
    ELSE totalAttributes(cache, n - 1) + Len(cache[n].entry.attributes)

\* models.map(model => loadSchemaForModel(model.modelId, region)) and the
\* await of Promise.all (schemaCache.js:75-79): every call is made, and so
\* every fetch issued, before anything else runs.
loadSchemasForFacility(models) ==
    LET started == startedModels(models)
        b       == Len(batches) + 1
        new     == [i \in DOMAIN started |-> startCall(schemaCache, started[i], b, epoch)]
    IN  /\ Len(calls) + Len(started) <= MaxCalls
        /\ calls' = calls \o new
        /\ fetchCount' = [m \in Models |-> fetchCount[m] + Issued(new, m)]
        /\ batches' = Append(batches, [models |-> models, first |-> Len(calls),
                                        started |-> Len(started),
                                        pc |-> "pending", total |-> 0])
        /\ UNCHANGED << schemaCache, epoch, dropped, lastLookup, appVars, stubVars >>

\* loadSchemasForFacility resumes after the await (schemaCache.js:79-84): a
\* rejection of Promise.all rejects it, otherwise it sums the cached
\* attribute counts and resolves.
FacilityLoadResumes(b) ==
    /\ b \in DOMAIN batches
    /\ batches[b].pc = "pending"
    /\ promiseAllSettled(b)
    /\ batches' = [batches EXCEPT
                     ![b].pc = IF \E c \in BatchCalls(b) : calls[c].pc = "rejected"
                               THEN "rejected" ELSE "resolved",
                     ![b].total = IF \E c \in BatchCalls(b) : calls[c].pc = "rejected"
                                  THEN 0
                                  ELSE totalAttributes(schemaCache, Len(schemaCache))]
    /\ UNCHANGED << schemaCache, calls, epoch, fetchCount, dropped, lastLookup, appVars, stubVars >>

\* --------------------------------------------------------- clearSchemaCache
\* for (const key in schemaCache) delete schemaCache[key] (schemaCache.js:143-148)
clearSchemaCache ==
    /\ epoch < MaxClears
    /\ schemaCache' = << >>
    /\ epoch' = epoch + 1
    /\ fetchCount' = [m \in Models |-> 0]
    /\ dropped' = CacheKeys(schemaCache)
    /\ UNCHANGED << calls, batches, lastLookup, appVars, stubVars >>

\* ----------------------------------------------------------- getPropertyInfo
Categories == { "Id", "ID", "Dim" }
Names == { "Mark", "mark", "Width" }

Min(S) == CHOOSE x \in S : \A y \in S : x <= y

\* attr.category === category && attr.name === propertyName
sameNamePair(attr, category, name) == attr.category = category /\ attr.name = name

MatchIndexes(attrs, category, name) ==
    { j \in DOMAIN attrs : sameNamePair(attrs[j], category, name) }

\* The cache position the first match is found at, 0 when there is none
\* (schemaCache.js:165-172).
firstMatchPos(cache, category, name) ==
    LET hits == { i \in DOMAIN cache :
                    MatchIndexes(cache[i].entry.attributes, category, name) # {} }
    IN  IF hits = {} THEN 0 ELSE Min(hits)

\* getPropertyInfo's result: << >> is null, << attr >> the first match.
getPropertyInfo(cache, category, name) ==
    LET i == firstMatchPos(cache, category, name)
    IN  IF i = 0 THEN << >>
        ELSE LET attrs == cache[i].entry.attributes
             IN  << attrs[Min(MatchIndexes(attrs, category, name))] >>

\* The models whose entries getPropertyInfo visits: the cache in key order
\* up to the entry of the first match, all of it when nothing matches.
entriesRead(cache, category, name) ==
    LET i == firstMatchPos(cache, category, name)
    IN  { cache[k].urn : k \in IF i = 0 THEN DOMAIN cache ELSE 1..i }

\* A type-aware input asks for the descriptor of the selected pair
\* (stubUI.js:258, 291) while currentFacilityURN is the selected facility.
GetPropertyInfo(category, name) ==
    /\ LET i == firstMatchPos(schemaCache, category, name)
       IN  lastLookup' = [op       |-> "getPropertyInfo",
                          found    |-> getPropertyInfo(schemaCache, category, name),
                          from     |-> IF i = 0 THEN << >> ELSE << schemaCache[i] >>,
                          epoch    |-> epoch,
                          facility |-> currentFacilityURN,
                          read     |-> entriesRead(schemaCache, category, name)]
    /\ UNCHANGED << cacheVars, appVars, stubVars >>

\* ------------------------------------------------ category and property lists
\* The base letters localeCompare(..., { sensitivity: 'base' }) compares two
\* strings by: letter case is ignored.
baseLetters(str) ==
    CASE str = "Id" -> << "i", "d" >>
      [] str = "ID" -> << "i", "d" >>
      [] str = "Dim" -> << "d", "i", "m" >>
      [] str = "Mark" -> << "m", "a", "r", "k" >>
      [] str = "mark" -> << "m", "a", "r", "k" >>
      [] str = "Width" -> << "w", "i", "d", "t", "h" >>
      [] OTHER -> << >>

Alphabet == << "a", "b", "c", "d", "e", "f", "g", "h", "i", "j", "k", "l", "m",
               "n", "o", "p", "q", "r", "s", "t", "u", "v", "w", "x", "y", "z" >>

rank(ch) == CHOOSE i \in DOMAIN Alphabet : Alphabet[i] = ch

RECURSIVE lettersBefore(_, _)
lettersBefore(x, y) ==
    IF y = << >> THEN FALSE
    ELSE IF x = << >> THEN TRUE
    ELSE IF Head(x) # Head(y) THEN rank(Head(x)) < rank(Head(y))
    ELSE lettersBefore(Tail(x), Tail(y))

\* a.localeCompare(b, undefined, { sensitivity: 'base' }) < 0
localeCompareBefore(a, b) == lettersBefore(baseLetters(a), baseLetters(b))

\* Array.prototype.sort with that comparator: the sort is stable, so strings
\* that compare equal keep the order they had.
RECURSIVE sortBase(_)
sortBase(list) ==
    IF list = << >> THEN << >>
    ELSE LET sorted == sortBase(SubSeq(list, 1, Len(list) - 1))
             x == list[Len(list)]
             k == Cardinality({ i \in DOMAIN sorted : ~localeCompareBefore(x, sorted[i]) })
         IN  SubSeq(sorted, 1, k) \o << x >> \o SubSeq(sorted, k + 1, Len(sorted))

setAddAlways(list, x) == Append(list, x)

\* Set.prototype.add, the set kept in insertion order: a string that is
\* already a member is not added again.
setAdd(list, x) ==
    IF \E i \in DOMAIN list : list[i] = x THEN list ELSE Append(list, x)

\* All attributes of the cache, entry by entry in key order
\* (schemaCache.js:93-94, 112-113).
RECURSIVE cachedAttributes(_)
cachedAttributes(cache) ==
    IF cache = << >> THEN << >>
    ELSE cachedAttributes(SubSeq(cache, 1, Len(cache) - 1))
            \o cache[Len(cache)].entry.attributes

\* The categories set of getUniqueCategoryNames after the first n attributes
\* (schemaCache.js:91-99): an empty category is skipped.
RECURSIVE collectCategories(_, _)
collectCategories(attrs, n) ==
    IF n = 0 THEN << >>
    ELSE LET prev == collectCategories(attrs, n - 1)
         IN  IF attrs[n].category # "" THEN setAdd(prev, attrs[n].category) ELSE prev

getUniqueCategoryNames(cache) ==
    LET attrs == cachedAttributes(cache)
    IN  sortBase(collectCategories(attrs, Len(attrs)))

\* An argument that may be left out: << >> when absent (null), << x >>
\* when supplied.
NoArgument == << >>
Argument(x) == << x >>

takesAnyCategory(categoryFilter, attr) == attr.name # ""

\* Does getUniquePropertyNames take the name of attr
\* (schemaCache.js:114-124)?  A filter that is absent or the empty string
\* is falsy and takes every attribute with a name.
takesName(categoryFilter, attr) ==
    IF categoryFilter # NoArgument /\ categoryFilter[1] # ""
    THEN attr.category = categoryFilter[1] /\ attr.name # ""
    ELSE attr.name # ""

RECURSIVE collectNames(_, _, _)
collectNames(attrs, n, categoryFilter) ==
    IF n = 0 THEN << >>
    ELSE LET prev == collectNames(attrs, n - 1, categoryFilter)
         IN  IF takesName(categoryFilter, attrs[n]) THEN setAdd(prev, attrs[n].name)
             ELSE prev

getUniquePropertyNames(cache, categoryFilter) ==
    LET attrs == cachedAttributes(cache)
    IN  sortBase(collectNames(attrs, Len(attrs), categoryFilter))

\* areSchemasLoaded (schemaCache.js:154-156)
areSchemasLoaded(cache) == Len(cache) > 0

\* A form builds its category list (stubUI.js:67-68).
GetUniqueCategoryNames ==
    /\ lastLookup' = [op     |-> "getUniqueCategoryNames",
                      found  |-> getUniqueCategoryNames(schemaCache),
                      filter |-> NoArgument,
                      epoch  |-> epoch]
    /\ UNCHANGED << cacheVars, appVars, stubVars >>

\* A form builds its property list for the category field's text, or for no
\* category (stubUI.js:69-73, 98-99).
GetUniquePropertyNames(categoryFilter) ==
    /\ lastLookup' = [op     |-> "getUniquePropertyNames",
                      found  |-> getUniquePropertyNames(schemaCache, categoryFilter),
                      filter |-> categoryFilter,
                      epoch  |-> epoch]
    /\ UNCHANGED << cacheVars, appVars, stubVars >>

\* --------------------------------------------------------------- loadFacility
\* What getFacilityInfo resolves with (api.js getFacilityInfo): the facility
\* object, or null after any failure.
InfoResults == { "info", "null" }

\* loadFacility up to its await (app.js loadFacility, part_002:319-336): a
\* call for the current facility returns at once; any other records the
\* facility as current, shows the overlay and issues the facility-info and
\* thumbnail requests.  The schema cache is not touched.
loadFacility(f) ==
    IF currentFacilityURN = f
    THEN UNCHANGED vars
    ELSE /\ currentFacilityURN' = f
         /\ facLoads' = Append(facLoads, [urn |-> f, pc |-> "await", info |-> "pending"])
         /\ shown' = [shown EXCEPT !.loading = TRUE]
         /\ UNCHANGED << cacheVars, lastLookup, form, exec, stubVars >>

\* loadFacility resumes once both requests have settled (part_002:333-390):
\* with a facility object it shows the facility and calls renderStubs, whose
\* first statements record the facility as the stub context
\* (stubUI.js:439-445); the overlay is hidden in every case.
LoadFacilityResumes(k, info) ==
    /\ k \in DOMAIN facLoads
    /\ facLoads[k].pc = "await"
    /\ IF info = "info"
       THEN /\ shown' = [shown EXCEPT !.info = facLoads[k].urn,
                                      !.stubs = facLoads[k].urn,
                                      !.loading = FALSE]
            /\ facLoads' = [facLoads EXCEPT ![k].pc = "render", ![k].info = info]
       ELSE /\ shown' = [shown EXCEPT !.loading = FALSE]
            /\ facLoads' = [facLoads EXCEPT ![k].pc = "done", ![k].info = info]
    /\ UNCHANGED << cacheVars, lastLookup, currentFacilityURN, form, exec, stubVars >>

\* renderStubs resumes after `await getModels(...)` (stubUI.js:445-447):
\* currentModels is the facility's links, or [] when the request failed, and
\* the stub menus are rebuilt.
RenderStubsResumes(k, info) ==
    /\ k \in DOMAIN facLoads
    /\ facLoads[k].pc = "render"
    /\ shown' = [shown EXCEPT !.models = IF info = "info"
                                         THEN ModelsOf(facLoads[k].urn) ELSE << >>,
                              !.rendered = facLoads[k].urn]
    /\ facLoads' = [facLoads EXCEPT ![k].pc = "done"]
    /\ UNCHANGED << cacheVars, lastLookup, currentFacilityURN, form, exec, stubVars >>

\* ------------------------------------------------------- type-aware value input
\* An argument of a DataTypes helper: a number, or an object such as an
\* attribute descriptor.
NumberArg(n) == [t |-> "number", n |-> n, attr |-> << >>]
ObjectArg(attr) == [t |-> "object", n |-> 0, attr |-> << attr >>]

\* DataTypes.isNumeric: dataType === 1 || dataType === 2 (schemaCache.js:186).
isNumeric(dataType) == dataType.t = "number" /\ dataType.n \in {1, 2}

\* DataTypes.isBoolean: dataType === 3 (schemaCache.js:189).
isBoolean(dataType) == dataType.t = "number" /\ dataType.n = 3

\* DataTypes.getName (schemaCache.js:192-200).
getName(dataType) ==
    IF dataType.t # "number" THEN "Unknown"
    ELSE CASE dataType.n = 1 -> "Integer"
           [] dataType.n = 2 -> "Float"
           [] dataType.n = 3 -> "Boolean"
           [] dataType.n = 20 -> "String"
           [] OTHER -> "Unknown"

\* renderTypeAwareInput (stubUI.js:145-200): the element the value is entered
\* in; propInfo is << >> (null) or << attr >>, and the helpers are given the
\* descriptor itself.
renderTypeAwareInput(propInfo) ==
    IF propInfo # << >> /\ isBoolean(ObjectArg(propInfo[1])) THEN "select"
    ELSE IF propInfo # << >> /\ isNumeric(ObjectArg(propInfo[1])) THEN "number"
    ELSE "text"

Digits == { "0", "1", "2", "3", "4", "5", "6", "7", "8", "9" }

RECURSIVE digitPrefix(_)
digitPrefix(s) ==
    IF s = << >> \/ Head(s) \notin Digits THEN << >>
    ELSE << Head(s) >> \o digitPrefix(Tail(s))

\* parseFloat on text without leading blanks or an exponent: an optional
\* sign, the longest run of digits, an optional fraction; NaN when there is
\* no digit to read.
parseFloat(s) ==
    LET signed == s # << >> /\ Head(s) \in { "-", "+" }
        body == IF signed THEN Tail(s) ELSE s
        int == digitPrefix(body)
        rest == SubSeq(body, Len(int) + 1, Len(body))
        frac == IF rest # << >> /\ Head(rest) = "." THEN digitPrefix(Tail(rest))
                ELSE << >>
    IN  [nan |-> int = << >> /\ frac = << >>,
         neg |-> signed /\ Head(s) = "-", int |-> int, frac |-> frac]

isNaN(num) == num.nan

\* Number.isInteger
isInteger(num) == ~num.nan /\ \A k \in DOMAIN num.frac : num.frac[k] = "0"

Valid == [valid |-> TRUE, error |-> "none", typeName |-> "none"]
Invalid(error, typeName) == [valid |-> FALSE, error |-> error, typeName |-> typeName]

\* validate of createTypeAwareValueInput (stubUI.js:282-310), for the text
\* of the category, property and value elements.
validate(cache, category, propName, value) ==
    IF category = "" \/ propName = "" THEN Invalid("selectFirst", "none")
    ELSE LET propInfo == getPropertyInfo(cache, category, propName)
         IN  IF value = << >> /\ value # << "0" >> /\ value # << "f", "a", "l", "s", "e" >>
             THEN Invalid("enterValue", "none")
             ELSE IF propInfo # << >> /\ isNumeric(ObjectArg(propInfo[1]))
             THEN IF isNaN(parseFloat(value))
                  THEN Invalid("validNumber", getName(ObjectArg(propInfo[1])))
                  ELSE IF propInfo[1].dataType = 2 /\ ~isInteger(parseFloat(value))
                  THEN Invalid("wholeNumber", "none")
                  ELSE Valid
             ELSE Valid

NotValidated == [called |-> FALSE, returned |-> Valid, propInfo |-> << >>,
                 value |-> << >>]

\* createTypeAwareValueInput (stubUI.js:210-241): the form starts with empty
\* category and property fields and a text input.
InitialForm == [category |-> "", propName |-> "", widget |-> "text",
                value |-> << >>, result |-> NotValidated]

\* updateInputForProperty (stubUI.js:244-260) on a form whose fields hold
\* category and propName: nothing changes while either is empty, otherwise
\* the value element is replaced by a fresh one for the descriptor found.
updateInputForProperty(f, cache) ==
    IF f.category = "" \/ f.propName = "" THEN f
    ELSE LET w == renderTypeAwareInput(getPropertyInfo(cache, f.category, f.propName))
         IN  [f EXCEPT !.widget = w,
                       !.value = IF w = "select" THEN << "t", "r", "u", "e" >>
                                 ELSE << >>]

\* The user picks a category; the change event runs updateInputForProperty
\* (stubUI.js:264-269).
ChangeCategory(category) ==
    /\ form' = updateInputForProperty([form EXCEPT !.category = category], schemaCache)
    /\ UNCHANGED << cacheVars, lastLookup, currentFacilityURN, facLoads, shown, exec, stubVars >>

\* The user picks a property name (stubUI.js:264-269).
ChangeProperty(propName) ==
    /\ form' = updateInputForProperty([form EXCEPT !.propName = propName], schemaCache)
    /\ UNCHANGED << cacheVars, lastLookup, currentFacilityURN, facLoads, shown, exec, stubVars >>

\* The user enters text in the value element: a select offers "true" and
\* "false" only (stubUI.js:155-164), a number input holds "" unless the text
\* is a number.
EnterValue(value) ==
    /\ form.widget = "select" => value \in { << "t", "r", "u", "e" >>,
                                             << "f", "a", "l", "s", "e" >> }
    /\ form' = [form EXCEPT !.value = IF form.widget = "number" /\ isNaN(parseFloat(value))
                                      THEN << >> ELSE value]
    /\ UNCHANGED << cacheVars, lastLookup, currentFacilityURN, facLoads, shown, exec, stubVars >>

\* The form is submitted: the value is validated before the stub is run
\* (stubUI.js:1647-1664).  The result keeps the descriptor and the value it
\* was computed for.
Validate ==
    /\ form' = [form EXCEPT !.result =
                   [called   |-> TRUE,
                    returned |-> validate(schemaCache, form.category, form.propName, form.value),
                    propInfo |-> IF form.category = "" \/ form.propName = "" THEN << >>
                                 ELSE getPropertyInfo(schemaCache, form.category, form.propName),
                    value    |-> form.value]]
    /\ UNCHANGED << cacheVars, lastLookup, currentFacilityURN, facLoads, shown, exec, stubVars >>

\* ------------------------------------------------------------ stub triggers
\* The two kinds of trigger createDropdownMenu builds: the Execute button of
\* a form (stubUI.js:1600-1680), here of the form "SET Property (by
\* Category/Name)" (stubUI.js:845-884), and the button of an item without
\* input (stubUI.js:1754-1769).
Triggers == { "executeBtn", "button" }

\* One run of a click handler: the trigger, what validate returned (Valid
\* where nothing is validated), whether the stub was invoked, the alert
\* shown, and the state of the promise the handler awaits.
Run(trigger, validation, invoked, alert, promise) ==
    [trigger |-> trigger, validation |-> validation, invoked |-> invoked,
     alert |-> alert, promise |-> promise]

InitialExec == [disabled |-> [t \in Triggers |-> FALSE], runs |-> << >>]

triggerLeftEnabled(e, trigger) == e

\* executeBtn.disabled = true, button.disabled = true (stubUI.js:1611, 1757)
disableTrigger(e, trigger) == [e EXCEPT !.disabled[trigger] = TRUE]

\* The finally clause of a click handler (stubUI.js:1676-1679, 1765-1768).
enableTrigger(e, trigger) == [e EXCEPT !.disabled[trigger] = FALSE]

neverAborts(validation) == FALSE

\* if (validationError) { ...; return; } (stubUI.js:1649-1664): every error
\* text of validate is a non-empty string.
abortsOnError(validation) == ~validation.valid

\* What the stub a handler calls does before the handler's await: it throws
\* at once, or returns a promise that settles later.
StubStarts == { "threw", "pending" }

\* The click handler of the form's Execute button up to its await
\* (stubUI.js:1610-1666).  A disabled button receives no click.  The value
\* is validated; on an error the reason is alerted and the handler returns
\* through its finally clause, otherwise the write stub is invoked.
ClickExecute(start) ==
    /\ ~exec.disabled["executeBtn"]
    /\ Len(exec.runs) < MaxClicks
    /\ LET validation == validate(schemaCache, form.category, form.propName, form.value)
           running == disableTrigger(exec, "executeBtn")
       IN  exec' =
             IF abortsOnError(validation)
             THEN enableTrigger(
                    [running EXCEPT !.runs = Append(@,
                        Run("executeBtn", validation, FALSE, validation.error, "none"))],
                    "executeBtn")
             ELSE IF start = "threw"
             THEN enableTrigger(
                    [running EXCEPT !.runs = Append(@,
                        Run("executeBtn", validation, TRUE, "none", "threw"))],
                    "executeBtn")
             ELSE [running EXCEPT !.runs = Append(@,
                        Run("executeBtn", validation, TRUE, "none", "pending"))]
    /\ UNCHANGED << cacheVars, lastLookup, currentFacilityURN, facLoads, shown, form, stubVars >>

\* The click handler of an item without input up to its await
\* (stubUI.js:1756-1761).
ClickButton(start) ==
    /\ ~exec.disabled["button"]
    /\ Len(exec.runs) < MaxClicks
    /\ LET running == disableTrigger(exec, "button")
       IN  exec' =
             IF start = "threw"
             THEN enableTrigger(
                    [running EXCEPT !.runs = Append(@,
                        Run("button", Valid, TRUE, "none", "threw"))],
                    "button")
             ELSE [running EXCEPT !.runs = Append(@,
                        Run("button", Valid, TRUE, "none", "pending"))]
    /\ UNCHANGED << cacheVars, lastLookup, currentFacilityURN, facLoads, shown, form, stubVars >>

\* The promise a handler awaits settles: the handler resumes, logs a
\* rejection, and leaves through its finally clause (stubUI.js:1666-1679,
\* 1761-1768).
StubSettles(k, outcome) ==
    /\ k \in DOMAIN exec.runs
    /\ exec.runs[k].promise = "pending"
    /\ exec' = enableTrigger([exec EXCEPT !.runs[k].promise = outcome],
                             exec.runs[k].trigger)
    /\ UNCHANGED << cacheVars, lastLookup, currentFacilityURN, facLoads, shown, form, stubVars >>

\* -------------------------------------------------------------- propertyStubs
\* The stubs of propertyStubs.js (part_003).  Strings that the filter inspects
\* are sequences of characters; a JavaScript value is its type, its string
\* form and, for an array, its elements.
JS(t, s, items) == [t |-> t, s |-> s, items |-> items]
Str(chars) == JS("string", chars, << >>)
Num(chars) == JS("number", chars, << >>)
Null == JS("null", << "n", "u", "l", "l" >>, << >>)
Undefined == JS("undefined", << "u", "n", "d", "e", "f", "i", "n", "e", "d" >>, << >>)
Arr(items) == JS("array", << >>, items)

\* String(value): an array joins the string forms of its elements with
\* commas, null and undefined elements contributing nothing.
RECURSIVE joinItems(_, _)
joinItems(items, n) ==
    IF n = 0 THEN << >>
    ELSE LET e == items[n]
             text == IF e.t \in {"null", "undefined"} THEN << >> ELSE e.s
         IN  IF n = 1 THEN text ELSE joinItems(items, n - 1) \o << "," >> \o text

String(v) == IF v.t = "array" THEN joinItems(v.items, Len(v.items)) ELSE v.s

\* JavaScript truthiness, as `if (rowObj)` and `if (prop)` apply it.
Truthy(v) ==
    CASE v.t = "array" -> TRUE
      [] v.t = "string" -> v.s # << >>
      [] v.t = "number" -> v.s # << "0" >>
      [] OTHER -> FALSE

\* value[0]: the first element of an array, the first character of a
\* string, undefined otherwise.
index0(v) ==
    CASE v.t = "array" /\ v.items # << >> -> v.items[1]
      [] v.t = "string" /\ v.s # << >> -> Str(<< v.s[1] >>)
      [] OTHER -> Undefined

toLowerCaseUnchanged(chars) == chars

\* String.prototype.toLowerCase on the letters the model uses.
LowerChar(ch) ==
    CASE ch = "C" -> "c" [] ch = "O" -> "o" [] ch = "N" -> "n"
      [] ch = "R" -> "r" [] ch = "E" -> "e" [] ch = "T" -> "t"
      [] OTHER -> ch

toLowerCase(chars) == [i \in DOMAIN chars |-> LowerChar(chars[i])]

\* new RegExp(pattern) on patterns made of literal characters, an optional
\* leading "^" and "[": a "[" that no "]" closes is a SyntaxError.
validPattern(p) ==
    \A i \in DOMAIN p : p[i] = "[" => \E j \in DOMAIN p : j > i /\ p[j] = "]"

\* regEx.test(text) for a valid pattern without a character class: the
\* literal occurs in the text, at its start when the pattern is anchored;
\* the "i" flag folds the case of both.
regExTest(p, ignoreCase, text) ==
    LET anchored == p # << >> /\ p[1] = "^"
        lit == IF anchored THEN Tail(p) ELSE p
        fold(x) == IF ignoreCase THEN toLowerCase(x) ELSE x
    IN  \E start \in 1 .. (Len(text) - Len(lit) + 1) :
            /\ anchored => start = 1
            /\ SubSeq(fold(text), start, start + Len(lit) - 1) = fold(lit)

\* One member of a scan row and the row itself; a row may also be null.
Cell(id, prop) == [id |-> id, prop |-> prop]
Row(k, cells) == [isNull |-> FALSE, k |-> k, cells |-> cells]
NullRow == [isNull |-> TRUE, k |-> "", cells |-> << >>]

\* rowObj[id]: the member of that name, undefined when there is none.
Col(rowObj, id) ==
    IF \E i \in DOMAIN rowObj.cells : rowObj.cells[i].id = id
    THEN rowObj.cells[CHOOSE i \in DOMAIN rowObj.cells : rowObj.cells[i].id = id].prop
    ELSE Undefined

Concrete == << "C", "o", "n", "c", "r", "e", "t", "e" >>
CONCRETE == << "C", "O", "N", "C", "R", "E", "T", "E" >>
concrete == << "c", "o", "n", "c", "r", "e", "t", "e" >>

\* Bodies a scan request can answer with: an array whose element 0 is the
\* header row, or a JSON object that is not an array.
HeaderRow == Row("hdr", << Cell("z:a", Arr(<< Str(<< "h" >>) >>)),
                           Cell("z:c", Arr(<< Str(<< "h" >>) >>)) >>)
ScanBody(isArray, rows) == [isArray |-> isArray, rows |-> rows]
ScanRows == << HeaderRow,
               Row("e1", << Cell("z:a", Arr(<< Str(Concrete), Str(concrete) >>)),
                            Cell("z:c", Arr(<< Str(CONCRETE) >>)),
                            Cell("z:d", Arr(<< Num(<< "5" >>) >>)) >>),
               NullRow,
               Row("e2", << Cell("z:a", Arr(<< Str(concrete) >>)),
                            Cell("z:c", Null),
                            Cell("z:d", Arr(<< >>)),
                            Cell("z:e", Arr(<< Str(Concrete) >>)) >>) >>
ScanBodies == { ScanBody(TRUE, ScanRows), ScanBody(TRUE, << HeaderRow >>),
                ScanBody(FALSE, << >>) }
ScanJsonOutcomes == { Outcome("unparsable", ScanBody(FALSE, << >>)) }
                        \cup { Outcome("body", b) : b \in ScanBodies }

\* Bodies the facility request can answer with: the facility with its links,
\* or an object without links.
FacilityBody(has, links) == [hasLinks |-> has, links |-> links]
FacilityJsonOutcomes(f) ==
    { Outcome("unparsable", FacilityBody(FALSE, << >>)),
      Outcome("body", FacilityBody(TRUE, ModelsOf(f))),
      Outcome("body", FacilityBody(FALSE, << >>)) }

\* The comparison every stub applies to one attribute of a model's schema
\* (part_003:45, 114, 264): strict equality of category and of name.
attrMatchesNameOnly(attr, categoryName, propName) == attr.name = propName

attrMatches(attr, categoryName, propName) ==
    attr.category = categoryName /\ attr.name = propName

\* qualProps: the matching attributes in schema order (part_003:41-48).
qualProps(attrs, categoryName, propName) ==
    SelectSeq(attrs, LAMBDA a : attrMatches(a, categoryName, propName))

firstColumnOnly(props) == << props[1].id >>

\* qualifiedColumns (part_003:121, 270).
qualifiedColumns(props) == [i \in DOMAIN props |-> props[i].id]

\* A request a stub issues; `cached` records whether the schema cache held
\* an entry for the model at that moment.
Request(req, urn, cached, columns, includeHistory) ==
    [req |-> req, urn |-> urn, cached |-> cached, columns |-> columns,
     includeHistory |-> includeHistory]

noSchemaRequest(urn, cached) == << >>

\* The schema GET issued for every model the loop reaches (part_003:34-37,
\* 103-106, 253-256).
schemaRequest(urn, cached) == << Request("schema", urn, cached, << >>, FALSE) >>

scanRequestUnrestricted(urn, cached, columns, includeHistory) ==
    << Request("scan", urn, cached, << >>, includeHistory) >>

\* The scan POST of scanForProperty and findElementsWherePropValueEquals
\* (part_003:124-133, 273-281) and of scanForUserProps (part_003:199-207).
scanRequest(urn, cached, columns, includeHistory) ==
    << Request("scan", urn, cached, columns, includeHistory) >>
familyScanRequest(urn, cached) ==
    << Request("scanFamilies", urn, cached, << "z" >>, FALSE) >>

PropertyValueCurrentOnly(op, urn, key, id, prop, includeHistory) ==
    IF op = "findElementsWherePropValueEquals"
    THEN [modelURN |-> urn, key |-> key, prop |-> id, value |-> index0(prop)]
    ELSE [key |-> key, prop |-> id, value |-> index0(prop)]

\* The PropertyValue pushed for one row and one qualified property
\* (part_003:147-149, 293-298).
PropertyValue(op, urn, key, id, prop, includeHistory) ==
    IF op = "findElementsWherePropValueEquals"
    THEN [modelURN |-> urn, key |-> key, prop |-> id, value |-> index0(prop)]
    ELSE [key |-> key, prop |-> id,
          value |-> IF includeHistory THEN prop ELSE index0(prop)]

RECURSIVE extractFromHeader(_, _, _, _, _, _)
extractFromHeader(op, urn, rows, props, includeHistory, p) ==
    IF p > Len(rows) * Len(props) THEN << >>
    ELSE LET rowObj == rows[1 + ((p - 1) \div Len(props))]
             q == props[1 + ((p - 1) % Len(props))]
             prop == Col(rowObj, q.id)
             rest == extractFromHeader(op, urn, rows, props, includeHistory, p + 1)
         IN  IF ~rowObj.isNull /\ Truthy(prop)
             THEN << PropertyValue(op, urn, rowObj.k, q.id, prop, includeHistory) >>
                     \o rest
             ELSE rest

\* The extraction loops (part_003:138-154, 286-303), from the p-th pair of
\* (row at index 1 or higher, qualified property) onwards.
RECURSIVE extractFrom(_, _, _, _, _, _)
extractFrom(op, urn, rows, props, includeHistory, p) ==
    IF p > (Len(rows) - 1) * Len(props) THEN << >>
    ELSE LET rowObj == rows[2 + ((p - 1) \div Len(props))]
             q == props[1 + ((p - 1) % Len(props))]
             prop == Col(rowObj, q.id)
             rest == extractFrom(op, urn, rows, props, includeHistory, p + 1)
         IN  IF ~rowObj.isNull /\ Truthy(prop)
             THEN << PropertyValue(op, urn, rowObj.k, q.id, prop, includeHistory) >>
                     \o rest
             ELSE rest

propValues(op, urn, body, props, includeHistory) ==
    IF body.isArray THEN extractFrom(op, urn, body.rows, props, includeHistory, 1)
    ELSE << >>

\* The filter of findElementsWherePropValueEquals (part_003:309-337).
matchingProps(values, matchStr, isRegEx, isCaseInsensitive) ==
    IF isRegEx
    THEN IF validPattern(matchStr)
         THEN [patternError |-> FALSE,
               matching |-> SelectSeq(values, LAMBDA pv :
                    regExTest(matchStr, isCaseInsensitive, String(pv.value)))]
         ELSE [patternError |-> TRUE, matching |-> << >>]
    ELSE IF isCaseInsensitive
         THEN [patternError |-> FALSE,
               matching |-> SelectSeq(values, LAMBDA pv :
                    toLowerCase(String(pv.value)) = toLowerCase(matchStr))]
         ELSE [patternError |-> FALSE,
               matching |-> SelectSeq(values, LAMBDA pv :
                    pv.value.t = "string" /\ pv.value.s = matchStr)]

\* What a stub has logged for one model once its loop body has run.
Report(urn, attrs, props, scanned, body, values, filtered, msg) ==
    [urn |-> urn, attrs |-> attrs, qualProps |-> props, scanned |-> scanned,
     body |-> body,
     propValues |-> values, matching |-> filtered.matching,
     patternError |-> filtered.patternError, msg |-> msg]

NoFilter == [patternError |-> FALSE, matching |-> << >>]
NoScanBody == ScanBody(FALSE, << >>)

IdleStub ==
    [n |-> 0, op |-> "none", facility |-> "none", categoryName |-> "",
     propName |-> "", includeHistory |-> FALSE, matchStr |-> << >>,
     isRegEx |-> FALSE, isCaseInsensitive |-> FALSE, pc |-> "idle",
     models |-> << >>, i |-> 0, attrs |-> << >>, qualProps |-> << >>,
     reports |-> << >>, caught |-> FALSE, failed |-> FALSE]

\* The loop reaches the model at position j (part_003:25-37, 94-106,
\* 191-207, 244-256): past the last model the stub returns; otherwise it
\* issues that model's first request, whatever the schema cache holds.
reachModel(st, log, cache, j) ==
    IF j > Len(st.models)
    THEN [stub |-> [st EXCEPT !.i = j, !.pc = "done"], log |-> log]
    ELSE LET urn == st.models[j]
             cached == CacheHas(cache, urn)
         IN  IF st.op = "scanForUserProps"
             THEN [stub |-> [st EXCEPT !.i = j, !.pc = "scan"],
                   log |-> log \o familyScanRequest(urn, cached)]
             ELSE [stub |-> [st EXCEPT !.i = j, !.pc = "schema"],
                   log |-> log \o schemaRequest(urn, cached)]

\* A stub without its catch clause: the error leaves the stub and the
\* promise it returned rejects.
caughtErrorRethrown(st) == [st EXCEPT !.pc = "rejected"]

\* The catch clause around the whole stub (part_003:65-67, 165-167, 213-215,
\* 354-356): the error is logged and the stub returns.
caughtError(st) == [st EXCEPT !.pc = "done", !.caught = TRUE]

\* An awaited request rejects or its body does not parse: the await throws
\* inside the try block (part_003:19-64, 88-164, 182-212, 245-353).
thrown(st) == [st EXCEPT !.failed = TRUE]

\* A stub is invoked and runs up to its first await, the facility request
\* (part_003:12-20, 82-89, 179-187, 232-246).
startStub(op, f, categoryName, propName, includeHistory, matchStr, isRegEx, isCaseInsensitive) ==
    /\ stub.pc \in {"idle", "done"}
    /\ stub.n < MaxStubCalls
    /\ stub' = [IdleStub EXCEPT !.n = stub.n + 1, !.op = op, !.facility = f,
                                !.categoryName = categoryName,
                                !.propName = propName,
                                !.includeHistory = includeHistory,
                                !.matchStr = matchStr, !.isRegEx = isRegEx,
                                !.isCaseInsensitive = isCaseInsensitive,
                                !.pc = "facility"]
    /\ stubLog' = << Request("facility", f, FALSE, << >>, FALSE) >>
    /\ UNCHANGED << cacheVars, lastLookup, appVars >>

getQualifiedProperty(f, categoryName, propName) ==
    startStub("getQualifiedProperty", f, categoryName, propName, FALSE, << >>,
              FALSE, FALSE)

scanForProperty(f, categoryName, propName, includeHistory) ==
    startStub("scanForProperty", f, categoryName, propName, includeHistory,
              << >>, FALSE, FALSE)

scanForUserProps(f) ==
    startStub("scanForUserProps", f, "", "", FALSE, << >>, FALSE, FALSE)

findElementsWherePropValueEquals(f, categoryName, propName, matchStr, isRegEx, isCaseInsensitive) ==
    startStub("findElementsWherePropValueEquals", f, categoryName, propName,
              FALSE, matchStr, isRegEx, isCaseInsensitive)

\* The stub with one more model reported, at the next model of its loop.
nextModelReturns(st, log, cache, report) ==
    [stub |-> [st EXCEPT !.reports = Append(st.reports, report), !.pc = "done"],
     log |-> log]

nextModel(st, log, cache, report) ==
    reachModel([st EXCEPT !.reports = Append(st.reports, report),
                          !.attrs = << >>, !.qualProps = << >>],
               log, cache, st.i + 1)

\* An awaited fetch of a stub settles (part_003:20, 37, 89, 106, 133, 187,
\* 207, 246, 256, 280): a rejection lands in the catch clause; a response of
\* any status is read with json().
StubFetchSettles(outcome) ==
    /\ stub.pc \in {"facility", "schema", "scan"}
    /\ stub' = IF outcome.kind = "networkError"
               THEN caughtError(thrown(stub))
               ELSE [stub EXCEPT !.pc = CASE stub.pc = "facility" -> "facilityJson"
                                          [] stub.pc = "schema" -> "schemaJson"
                                          [] OTHER -> "scanJson"]
    /\ UNCHANGED << cacheVars, lastLookup, appVars, stubLog >>

\* facilityResponse.json() settles (part_003:21-25, 90-94, 188-191,
\* 247-250): models is the links of the body, or [] without links, and the
\* loop starts.
FacilityJsonSettles(outcome) ==
    /\ stub.pc = "facilityJson"
    /\ LET models == IF outcome.body.hasLinks THEN outcome.body.links ELSE << >>
           r == IF outcome.kind = "unparsable"
                THEN [stub |-> caughtError(thrown(stub)), log |-> stubLog]
                ELSE reachModel([stub EXCEPT !.models = models], stubLog,
                                schemaCache, 1)
       IN  stub' = r.stub /\ stubLog' = r.log
    /\ UNCHANGED << cacheVars, lastLookup, appVars >>

\* schemaResponse.json() settles and the loop body runs up to its next await
\* (part_003:38-63, 107-133, 257-280).
SchemaJsonSettles(outcome) ==
    /\ stub.pc = "schemaJson"
    /\ LET urn == stub.models[stub.i]
           attrs == outcome.body.attributes
           props == qualProps(attrs, stub.categoryName, stub.propName)
           found == Report(urn, attrs, props, FALSE, NoScanBody, << >>, NoFilter,
                           IF Len(props) = 1 THEN "one" ELSE "multiple")
           notFound == Report(urn, attrs, props, FALSE, NoScanBody, << >>, NoFilter, "notFound")
           r == CASE outcome.kind = "unparsable" ->
                        [stub |-> caughtError(thrown(stub)), log |-> stubLog]
                  [] outcome.kind # "unparsable" /\ props = << >> ->
                        nextModel(stub, stubLog, schemaCache, notFound)
                  [] outcome.kind # "unparsable" /\ props # << >>
                        /\ stub.op = "getQualifiedProperty" ->
                        nextModel(stub, stubLog, schemaCache, found)
                  [] OTHER ->
                        [stub |-> [stub EXCEPT !.pc = "scan", !.attrs = attrs,
                                               !.qualProps = props],
                         log |-> stubLog \o
                                 scanRequest(urn, CacheHas(schemaCache, urn),
                                             qualifiedColumns(props),
                                             stub.includeHistory)]
       IN  stub' = r.stub /\ stubLog' = r.log
    /\ UNCHANGED << cacheVars, lastLookup, appVars >>

\* The scan response's json() settles and the rest of the loop body runs
\* (part_003:134-163, 208-211, 281-352).
ScanJsonSettles(outcome) ==
    /\ stub.pc = "scanJson"
    /\ LET urn == stub.models[stub.i]
           values == propValues(stub.op, urn, outcome.body, stub.qualProps,
                                stub.includeHistory)
           filtered == matchingProps(values, stub.matchStr, stub.isRegEx,
                                     stub.isCaseInsensitive)
           report ==
               CASE stub.op = "scanForUserProps" ->
                        Report(urn, << >>, << >>, TRUE, outcome.body, << >>, NoFilter,
                               "result")
                 [] stub.op = "scanForProperty" ->
                        Report(urn, stub.attrs, stub.qualProps, TRUE, outcome.body, values, NoFilter,
                               IF values # << >> THEN "table" ELSE "none")
                 [] stub.op \notin {"scanForUserProps", "scanForProperty"}
                        /\ values = << >> ->
                        Report(urn, stub.attrs, stub.qualProps, TRUE, outcome.body, values, NoFilter,
                               "noElementsWithProperty")
                 [] OTHER ->
                        Report(urn, stub.attrs, stub.qualProps, TRUE, outcome.body, values, filtered,
                               IF filtered.matching # << >> THEN "matches"
                               ELSE "noElementsWithValue")
           r == IF outcome.kind = "unparsable"
                THEN [stub |-> caughtError(thrown(stub)), log |-> stubLog]
                ELSE nextModel(stub, stubLog, schemaCache, report)
       IN  stub' = r.stub /\ stubLog' = r.log
    /\ UNCHANGED << cacheVars, lastLookup, appVars >>

\* ------------------------------------------------------------------- Spec
NoLookup == [op |-> "none", found |-> << >>, from |-> << >>, epoch |-> 0,
             facility |-> "none", read |-> {}]

CacheInit ==
    /\ schemaCache = << >>
    /\ calls = << >>
    /\ batches = << >>
    /\ epoch = 0
    /\ fetchCount = [m \in Models |-> 0]
    /\ dropped = {}
    /\ lastLookup = NoLookup

AppInit ==
    /\ currentFacilityURN = "none"
    /\ facLoads = << >>
    /\ shown = [info |-> "none", stubs |-> "none", models |-> << >>,
                rendered |-> "none", loading |-> FALSE]
    /\ form = InitialForm
    /\ exec = InitialExec

StubInit ==
    /\ stub = IdleStub
    /\ stubLog = << >>

Init == CacheInit /\ AppInit /\ StubInit

\* The schema cache under concurrent loads and clears.  One kind of failure
\* (they all end in the same empty entry) and the bodies that carry
\* attributes are enough to tell the entries of concurrent loads apart.
RaceFetchOutcomes == { o \in FetchOutcomes : o.kind \in {"networkError", "ok"} }
RaceJsonOutcomes == { o \in JsonOutcomes : o.kind = "body" /\ o.body.hasAttributes }

Next ==
    \/ \E m \in Models : loadSchemaForModel(m)
    \/ \E ms \in ModelLists : loadSchemasForFacility(ms)
    \/ \E c \in 1..MaxCalls, o \in RaceFetchOutcomes : FetchSettles(c, o)
    \/ \E c \in 1..MaxCalls, o \in RaceJsonOutcomes : JsonSettles(c, o)
    \/ \E b \in 1..MaxCalls : FacilityLoadResumes(b)
    \/ clearSchemaCache

Spec == Init /\ [][Next]_vars

\* The cache used by callers that await each call before making the next:
\* loadSchemaForModel and loadSchemasForFacility, each invoked once every
\* earlier invocation has settled.
AllLoadsSettled ==
    /\ \A b \in DOMAIN batches : batches[b].pc # "pending"
    /\ \A c \in DOMAIN calls : calls[c].pc \in {"resolved", "rejected"}

NextAwaited ==
    \/ \E m \in Models : AllLoadsSettled /\ loadSchemaForModel(m)
    \/ \E ms \in ModelLists : AllLoadsSettled /\ loadSchemasForFacility(ms)
    \/ \E c \in 1..MaxCalls, o \in FetchOutcomes : FetchSettles(c, o)
    \/ \E c \in 1..MaxCalls, o \in JsonOutcomes : JsonSettles(c, o)
    \/ \E b \in 1..MaxCalls : FacilityLoadResumes(b)

SpecAwaited == Init /\ [][NextAwaited]_vars

\* The page: facilities are selected, the schemas of the selected facility
\* are loaded into the cache, and type-aware inputs look descriptors up.
MaxFacilityLoads == 2    \* loadFacility invocations that change the facility

NextApp ==
    \/ \E f \in Facilities : Len(facLoads) < MaxFacilityLoads /\ loadFacility(f)
    \/ \E k \in 1..MaxFacilityLoads, i \in InfoResults : LoadFacilityResumes(k, i)
    \/ \E k \in 1..MaxFacilityLoads, i \in InfoResults : RenderStubsResumes(k, i)
    \/ /\ currentFacilityURN \in Facilities
       /\ AllLoadsSettled
       /\ loadSchemasForFacility(ModelsOf(currentFacilityURN))
    \/ \E c \in 1..MaxCalls, o \in RaceFetchOutcomes : FetchSettles(c, o)
    \/ \E c \in 1..MaxCalls, o \in RaceJsonOutcomes : JsonSettles(c, o)
    \/ \E b \in 1..MaxCalls : FacilityLoadResumes(b)
    \/ \E cat \in Categories, n \in Names : GetPropertyInfo(cat, n)

SpecApp == Init /\ [][NextApp]_vars

\* The stubs run against a cache that a facility's schema load has filled,
\* or has not: the stubs are invoked with a few queries and filters, every
\* request of theirs settles in any way.
ResolveQueries == { << "Id", "Mark" >>, << "ID", "mark" >>, << "Dim", "Mark" >>,
                    << "Id", "Width" >> }
ResolveFilters == { << Concrete, FALSE, FALSE >>, << << "[" >>, TRUE, FALSE >> }

NextResolve ==
    \/ \E f \in Facilities :
          /\ stub.pc = "idle" /\ Len(batches) = 0
          /\ loadSchemasForFacility(ModelsOf(f))
    \/ \E c \in 1..MaxCalls, o \in RaceFetchOutcomes :
          stub.pc = "idle" /\ FetchSettles(c, o)
    \/ \E c \in 1..MaxCalls, o \in RaceJsonOutcomes :
          stub.pc = "idle" /\ JsonSettles(c, o)
    \/ \E b \in 1..MaxCalls : stub.pc = "idle" /\ FacilityLoadResumes(b)
    \/ \E f \in Facilities, q \in ResolveQueries :
          getQualifiedProperty(f, q[1], q[2])
    \/ \E f \in Facilities, q \in ResolveQueries, h \in BOOLEAN :
          scanForProperty(f, q[1], q[2], h)
    \/ \E f \in Facilities : scanForUserProps(f)
    \/ \E f \in Facilities, q \in ResolveQueries, m \in ResolveFilters :
          findElementsWherePropValueEquals(f, q[1], q[2], m[1], m[2], m[3])
    \/ \E o \in FetchOutcomes : StubFetchSettles(o)
    \/ \E o \in FacilityJsonOutcomes(stub.facility) : FacilityJsonSettles(o)
    \/ \E o \in JsonOutcomes : SchemaJsonSettles(o)
    \/ \E o \in ScanJsonOutcomes : ScanJsonSettles(o)

SpecResolve == Init /\ [][NextResolve]_vars

\* findElementsWherePropValueEquals with every combination of pattern and
\* flags, against any responses.
MatchStrs == { Concrete, CONCRETE, concrete, << "5" >>, << "^", "C", "o", "n" >>,
               << "[" >> }
FilterQueries == { << "Id", "Mark" >>, << "ID", "mark" >> }

NextFilter ==
    \/ \E f \in Facilities, q \in FilterQueries, m \in MatchStrs, x, ci \in BOOLEAN :
          findElementsWherePropValueEquals(f, q[1], q[2], m, x, ci)
    \/ \E o \in FetchOutcomes : StubFetchSettles(o)
    \/ \E o \in FacilityJsonOutcomes(stub.facility) : FacilityJsonSettles(o)
    \/ \E o \in JsonOutcomes : SchemaJsonSettles(o)
    \/ \E o \in ScanJsonOutcomes : ScanJsonSettles(o)

SpecFilter == Init /\ [][NextFilter]_vars

\* A stub form with a type-aware value input, on a page whose schema cache
\* is filled by one facility's schema load: the user picks a category and a
\* property, enters a value and submits.
FormCategories == { "", "Id", "Dim" }
FormNames == { "", "Mark", "Width" }
FormValues == { << >>, << "3" >>, << "-", "3" >>, << "3", ".", "5" >>,
                << "y", "e", "s" >>, << "t", "r", "u", "e" >>,
                << "f", "a", "l", "s", "e" >> }

NextValidate ==
    \/ \E f \in Facilities :
          Len(batches) = 0 /\ loadSchemasForFacility(ModelsOf(f))
    \/ \E c \in 1..MaxCalls, o \in RaceFetchOutcomes : FetchSettles(c, o)
    \/ \E c \in 1..MaxCalls, o \in RaceJsonOutcomes : JsonSettles(c, o)
    \/ \E b \in 1..MaxCalls : FacilityLoadResumes(b)
    \/ \E category \in FormCategories : ChangeCategory(category)
    \/ \E propName \in FormNames : ChangeProperty(propName)
    \/ \E value \in FormValues : EnterValue(value)
    \/ Validate

SpecValidate == Init /\ [][NextValidate]_vars

\* The category and property lists of the forms, read from a cache that
\* awaited loads fill with any schemas.
CategoryFilters == { NoArgument, Argument(""), Argument("Id"), Argument("ID"),
                     Argument("Dim"), Argument("Width") }

NextNames ==
    \/ \E m \in Models : AllLoadsSettled /\ loadSchemaForModel(m)
    \/ \E c \in 1..MaxCalls, o \in FetchOutcomes : FetchSettles(c, o)
    \/ \E c \in 1..MaxCalls, o \in JsonOutcomes : JsonSettles(c, o)
    \/ GetUniqueCategoryNames
    \/ \E categoryFilter \in CategoryFilters : GetUniquePropertyNames(categoryFilter)

SpecNames == Init /\ [][NextNames]_vars

\* The write form and an item without input on a page whose cache one
\* facility's schema load fills: the user fills the form and clicks the
\* triggers while earlier executions are still running.
ExecuteCategories == { "", "Id" }
ExecuteNames == { "", "Mark" }
ExecuteValues == { << >>, << "3" >>, << "3", ".", "5" >> }

NextExecute ==
    \/ \E f \in Facilities :
          Len(batches) = 0 /\ form = InitialForm /\ loadSchemasForFacility(ModelsOf(f))
    \/ \E c \in 1..MaxCalls, o \in RaceFetchOutcomes : FetchSettles(c, o)
    \/ \E c \in 1..MaxCalls, o \in RaceJsonOutcomes : JsonSettles(c, o)
    \/ \E b \in 1..MaxCalls : FacilityLoadResumes(b)
    \/ \E category \in ExecuteCategories : ChangeCategory(category)
    \/ \E propName \in ExecuteNames : ChangeProperty(propName)
    \/ \E value \in ExecuteValues : EnterValue(value)
    \/ \E start \in StubStarts : ClickExecute(start)
    \/ \E start \in StubStarts : ClickButton(start)
    \/ \E k \in 1..MaxClicks, outcome \in { "resolved", "rejected" } : StubSettles(k, outcome)

SpecExecute == Init /\ [][NextExecute]_vars

\* ================================================================ claims
FailureKinds == { "networkError", "non2xx", "unparsable" }

\* The fetch of call c ended without an attribute list.
FetchFailed(c) ==
    \/ calls[c].got.kind \in FailureKinds
    \/ calls[c].got.kind = "body" /\ ~calls[c].got.body.hasAttributes

\* The fetch of call c delivered an attribute list.
FetchSucceeded(c) ==
    calls[c].got.kind = "body" /\ calls[c].got.body.hasAttributes

\* C1: between two consecutive clears (or from start-up to the first clear)
\* at most one schema fetch is issued for any model, whatever the
\* interleaving of the load calls.
C1_AtMostOneFetchPerModel == \A m \in Models : fetchCount[m] <= 1

\* C2: a loadSchemaForModel call that finds an entry for its model returns
\* that entry and issues no fetch; a call that finds none issues a fetch
\* and, when fetchSchema returns, stores an entry built from the returned
\* attributes with its identifier index under the model and returns the
\* stored entry.
C2_Start(c) ==
    IF CacheHas(schemaCache, calls'[c].urn)
    THEN /\ calls'[c].pc = "resolved"
         /\ calls'[c].result = << CacheGet(schemaCache, calls'[c].urn) >>
         /\ fetchCount'[calls'[c].urn] = fetchCount[calls'[c].urn]
    ELSE /\ calls'[c].pc = "fetch"
         /\ fetchCount'[calls'[c].urn] >= fetchCount[calls'[c].urn] + 1

C2_Finish(c) ==
    LET urn == calls[c].urn
        attrs == IF calls'[c].got.kind = "body" /\ calls'[c].got.body.hasAttributes
                 THEN calls'[c].got.body.attributes ELSE << >>
    IN  /\ CacheHas(schemaCache', urn)
        /\ calls'[c].result = << CacheGet(schemaCache', urn) >>
        /\ CacheGet(schemaCache', urn).id = c
        /\ CacheGet(schemaCache', urn).attributes = attrs
        /\ DOMAIN CacheGet(schemaCache', urn).lookup = { attrs[j].id : j \in DOMAIN attrs }
        /\ \A k \in DOMAIN CacheGet(schemaCache', urn).lookup :
               CacheGet(schemaCache', urn).lookup[k].id = k

C2_MemoizedLoad ==
    [][ \A c \in DOMAIN calls' :
          /\ (c \notin DOMAIN calls) => C2_Start(c)
          /\ (c \in DOMAIN calls /\ calls[c].pc \in {"fetch", "json"}
                /\ calls'[c].pc = "resolved") => C2_Finish(c) ]_vars

\* C2 witness: one call stored a populated entry and a later call for the
\* same model was answered with it.
C2_Witness ==
    \E c, d \in DOMAIN calls :
        /\ c < d /\ calls[c].urn = calls[d].urn
        /\ ~calls[c].hit /\ calls[c].pc = "resolved" /\ FetchSucceeded(c)
        /\ calls[d].hit /\ calls[d].result = calls[c].result

\* The stubs that resolve a (category, name) pair per model.
ResolveOps == { "getQualifiedProperty", "scanForProperty",
                "findElementsWherePropValueEquals" }

\* The schema requests the running stub has issued for a model.
SchemaRequestsFor(urn) ==
    { e \in DOMAIN stubLog : stubLog[e].req = "schema" /\ stubLog[e].urn = urn }

C4_FreshFetchAfterClear ==
    \A c \in DOMAIN calls :
        (calls[c].epoch = epoch /\ epoch > 0 /\ calls[c].urn \in dropped
            /\ calls[c].pc = "resolved")
        => calls[c].result[1].epoch = epoch

\* C5: whenever the current facility changes the schema cache is cleared in
\* the same step, before anything is loaded or looked up for the new
\* facility, and so no lookup made while a facility is current reads an
\* entry of a model of another facility.
C5_ClearedOnFacilityChange ==
    [][ /\ currentFacilityURN' # currentFacilityURN => schemaCache' = << >>
        /\ (lastLookup' # lastLookup /\ lastLookup'.op = "getPropertyInfo") =>
              \A u \in lastLookup'.read :
                  \E i \in DOMAIN ModelsOf(lastLookup'.facility) :
                      ModelsOf(lastLookup'.facility)[i] = u ]_vars

\* C6: an entry, once stored, stays the cache's entry for its model until
\* clearSchemaCache runs.
C6_EntriesReadOnly ==
    [][ epoch' = epoch =>
          \A m \in Models :
              CacheHas(schemaCache, m) =>
                  /\ CacheHas(schemaCache', m)
                  /\ CacheGet(schemaCache', m) = CacheGet(schemaCache, m) ]_vars

QueriedPositions(attrs) ==
    { j \in DOMAIN attrs : /\ attrs[j].category = stub.categoryName
                           /\ attrs[j].name = stub.propName }

\* C10: for every model, the descriptors that resolution reports are
\* exactly the attributes of the model's schema whose category equals the
\* queried category and whose name equals the queried name, letter case
\* included: none besides them and none of them left out.
C10_ExactlyTheMatchingDescriptors ==
    stub.op \in ResolveOps =>
        \A k \in DOMAIN stub.reports :
            LET r == stub.reports[k]
            IN  /\ Len(r.qualProps) = Cardinality(QueriedPositions(r.attrs))
                /\ \A j \in QueriedPositions(r.attrs) :
                      \E p \in DOMAIN r.qualProps : r.qualProps[p] = r.attrs[j]
                /\ \A p \in DOMAIN r.qualProps :
                      \E j \in QueriedPositions(r.attrs) : r.qualProps[p] = r.attrs[j]

\* C10 witness: a model is reported with two descriptors, out of a schema
\* that also holds an attribute of the same name in another category and
\* one that differs from the query in letter case only.
C10_Witness ==
    /\ stub.op \in ResolveOps
    /\ stub.categoryName = "Id" /\ stub.propName = "Mark"
    /\ \E k \in DOMAIN stub.reports :
          LET r == stub.reports[k]
          IN  /\ Len(r.qualProps) = 2
              /\ \E j \in DOMAIN r.attrs :
                    r.attrs[j].category = "Dim" /\ r.attrs[j].name = "Mark"
              /\ \E j \in DOMAIN r.attrs :
                    r.attrs[j].category = "ID" /\ r.attrs[j].name = "mark"

\* The (category, name) pairs that no schema the service delivers contains.
AbsentQueries ==
    { q \in ResolveQueries :
        \A b \in SchemaBodies : \A j \in DOMAIN b.attributes :
            ~(b.attributes[j].category = q[1] /\ b.attributes[j].name = q[2]) }

\* The running stub has returned after the facility request delivered the
\* facility's models and none of its requests failed.
ResolvedEveryRequest ==
    /\ stub.op \in ResolveOps /\ stub.pc = "done" /\ ~stub.failed
    /\ stub.models = ModelsOf(stub.facility)

\* C11: resolving a (category, name) pair that the schema of no model
\* contains ends normally, not in the error handler, with every model of
\* the facility visited in turn and each of them reported as "not found",
\* none with a match and none scanned.
C11_AbsentPairNotFoundEverywhere ==
    (ResolvedEveryRequest /\ << stub.categoryName, stub.propName >> \in AbsentQueries) =>
        /\ ~stub.caught
        /\ Len(stub.reports) = Len(stub.models)
        /\ \A k \in DOMAIN stub.reports :
              /\ stub.reports[k].urn = stub.models[k]
              /\ stub.reports[k].msg = "notFound"
              /\ stub.reports[k].qualProps = << >>
              /\ ~stub.reports[k].scanned

\* C11 witness: a stub has gone through a facility of two models whose
\* schemas hold attributes, none of them the queried pair.
C11_Witness ==
    /\ ResolvedEveryRequest
    /\ << stub.categoryName, stub.propName >> \in AbsentQueries
    /\ Len(stub.reports) = 2
    /\ \A k \in DOMAIN stub.reports : stub.reports[k].attrs # << >>

\* The scan requests the running stub has issued for a model.
ScanRequestsFor(urn) ==
    { e \in DOMAIN stubLog : stubLog[e].req = "scan" /\ stubLog[e].urn = urn }

\* Some scan request for the model carries the qualified id of every
\* attribute of attrs that has the queried category and name, and as many
\* columns as there are such attributes.
ScanAsksForAll(urn, attrs) ==
    \E e \in ScanRequestsFor(urn) :
        /\ Len(stubLog[e].columns) = Cardinality(QueriedPositions(attrs))
        /\ \A j \in QueriedPositions(attrs) :
              \E c \in DOMAIN stubLog[e].columns : stubLog[e].columns[c] = attrs[j].id

\* C12: when the queried pair matches several attributes of one model,
\* resolution keeps all of them: getQualifiedProperty reports them all under
\* its warning and goes on, and the scan request of scanForProperty and
\* findElementsWherePropValueEquals for that model asks for the qualified id
\* of each of them.
C12_AllMatchesKept ==
    stub.op \in ResolveOps =>
        /\ \A k \in DOMAIN stub.reports :
              LET r == stub.reports[k]
              IN  Cardinality(QueriedPositions(r.attrs)) > 1 =>
                    /\ Len(r.qualProps) = Cardinality(QueriedPositions(r.attrs))
                    /\ IF stub.op = "getQualifiedProperty"
                       THEN r.msg = "multiple"
                       ELSE ScanAsksForAll(r.urn, r.attrs)
        /\ (stub.pc \in {"scan", "scanJson"}
                /\ Cardinality(QueriedPositions(stub.attrs)) > 1) =>
              /\ Len(stub.qualProps) = Cardinality(QueriedPositions(stub.attrs))
              /\ ScanAsksForAll(stub.models[stub.i], stub.attrs)

\* C12 witness: a scan stub has reported a model in which the pair matched
\* two attributes, with values extracted from the columns of both.
C12_Witness ==
    /\ stub.op \in ResolveOps /\ stub.op # "getQualifiedProperty"
    /\ \E k \in DOMAIN stub.reports :
          LET r == stub.reports[k]
          IN  /\ Len(r.qualProps) = 2 /\ r.scanned
              /\ \A p \in DOMAIN r.qualProps :
                    \E v \in DOMAIN r.propValues :
                        r.propValues[v].prop = r.qualProps[p].id

\* The stubs that scan the models for the resolved columns.
ScanOps == { "scanForProperty", "findElementsWherePropValueEquals" }

\* The reports of the running stub for which a scan response was an array.
ArrayScans ==
    { k \in DOMAIN stub.reports :
        /\ stub.op \in ScanOps /\ stub.reports[k].scanned
        /\ stub.reports[k].body.isArray /\ stub.reports[k].body.rows # << >> }

\* C13: no PropertyValue comes from element 0 of a scan response, the
\* header row, whatever columns that element carries, and every element at
\* index 1 or higher is examined: each value a row there holds for a
\* resolved column is emitted.
C13_HeaderRowSkipped ==
    \A k \in ArrayScans :
        LET r == stub.reports[k]
            rows == r.body.rows
        IN  /\ \A v \in DOMAIN r.propValues :
                  /\ r.propValues[v].key # rows[1].k
                  /\ \E i \in 2 .. Len(rows) :
                        /\ ~rows[i].isNull /\ rows[i].k = r.propValues[v].key
                        /\ Truthy(Col(rows[i], r.propValues[v].prop))
            /\ \A i \in 2 .. Len(rows), p \in DOMAIN r.qualProps :
                  (~rows[i].isNull /\ Truthy(Col(rows[i], r.qualProps[p].id))) =>
                      \E v \in DOMAIN r.propValues :
                          /\ r.propValues[v].key = rows[i].k
                          /\ r.propValues[v].prop = r.qualProps[p].id

\* C13 witness: a scan response whose header row carries a resolved column
\* has been processed and values of later rows were emitted.
C13_Witness ==
    \E k \in ArrayScans :
        LET r == stub.reports[k]
        IN  /\ \E p \in DOMAIN r.qualProps :
                  Truthy(Col(r.body.rows[1], r.qualProps[p].id))
            /\ r.propValues # << >>
            /\ \E i \in 2 .. Len(r.body.rows) : r.body.rows[i].isNull

\* The reports of scanForProperty for which the scan response was an array.
PropertyScans == { k \in ArrayScans : stub.op = "scanForProperty" }

\* The data rows of a scan response with the given key.
RowsWithKey(rows, key) == { i \in 2 .. Len(rows) : ~rows[i].isNull /\ rows[i].k = key }

\* C14: scanForProperty emits at most one PropertyValue for a model, a row
\* and a qualified id; without history its value is the current value, the
\* first element of what the service returned for that id on that row, and
\* with history it is everything the service returned for it, in order.
C14_CurrentValueOrHistory ==
    \A k \in PropertyScans :
        LET r == stub.reports[k]
            rows == r.body.rows
        IN  /\ \A v, w \in DOMAIN r.propValues :
                  (r.propValues[v].key = r.propValues[w].key
                      /\ r.propValues[v].prop = r.propValues[w].prop) => v = w
            /\ \A v \in DOMAIN r.propValues :
                  \E i \in RowsWithKey(rows, r.propValues[v].key) :
                      LET returned == Col(rows[i], r.propValues[v].prop)
                      IN  /\ returned.t = "array"
                          /\ IF stub.includeHistory
                             THEN r.propValues[v].value = returned
                             ELSE returned.items # << >> =>
                                      r.propValues[v].value = returned.items[1]

\* C14 witness: scanForProperty with history has emitted a value that holds
\* two recorded values of one column of one row.
C14_Witness ==
    /\ stub.includeHistory
    /\ \E k \in PropertyScans :
          \E v \in DOMAIN stub.reports[k].propValues :
              Len(stub.reports[k].propValues[v].value.items) = 2

\* The scan requests for a model are exactly one, whose columns are the
\* qualified ids of the attributes of attrs with the queried pair and
\* nothing else.
OneScanForExactly(urn, attrs) ==
    /\ Cardinality(ScanRequestsFor(urn)) = 1
    /\ ScanAsksForAll(urn, attrs)
    /\ \A e \in ScanRequestsFor(urn) : \A c \in DOMAIN stubLog[e].columns :
          \E j \in QueriedPositions(attrs) : stubLog[e].columns[c] = attrs[j].id

\* C15: scanForProperty and findElementsWherePropValueEquals issue, for a
\* model in which the pair matches, exactly one scan request, with exactly
\* the resolved qualified ids, and none for a model in which it does not;
\* after such a model the stub goes on to the next model.
C15_OneScanPerMatchingModel ==
    stub.op \in ScanOps =>
        /\ \A k \in DOMAIN stub.reports :
              LET r == stub.reports[k]
              IN  IF QueriedPositions(r.attrs) # {}
                  THEN r.scanned /\ OneScanForExactly(r.urn, r.attrs)
                  ELSE /\ ~r.scanned /\ ScanRequestsFor(r.urn) = {}
                       /\ ~stub.caught => stub.i > k
                       /\ k < Len(stub.models) =>
                             SchemaRequestsFor(stub.models[k + 1]) # {}
        /\ stub.pc \in {"scan", "scanJson"} =>
              /\ QueriedPositions(stub.attrs) # {}
              /\ OneScanForExactly(stub.models[stub.i], stub.attrs)
        /\ stub.pc \in {"schema", "schemaJson"} =>
              ScanRequestsFor(stub.models[stub.i]) = {}
        /\ \A j \in DOMAIN stub.models :
              /\ Cardinality(ScanRequestsFor(stub.models[j])) <= 1
              /\ j > stub.i => ScanRequestsFor(stub.models[j]) = {}

\* C15 witness: a scan stub has skipped a first model without the pair and
\* scanned the second one, in which the pair matched.
C15_Witness ==
    /\ stub.op \in ScanOps /\ stub.pc = "done" /\ Len(stub.reports) = 2
    /\ stub.reports[1].qualProps = << >> /\ stub.reports[1].attrs # << >>
    /\ stub.reports[2].scanned /\ stub.reports[2].propValues # << >>
    /\ ScanRequestsFor(stub.reports[1].urn) = {}
    /\ Cardinality(ScanRequestsFor(stub.reports[2].urn)) = 1

\* The reports of findElementsWherePropValueEquals for models whose scan
\* delivered values, so that the filter ran.
FilteredReports ==
    { k \in DOMAIN stub.reports :
        /\ stub.op = "findElementsWherePropValueEquals"
        /\ stub.reports[k].propValues # << >> }

\* C16: with isRegEx set and an invalid pattern, the stub returns without
\* an unhandled failure, keeps no PropertyValue and reports the pattern
\* error instead of the "no elements found with that value" outcome of a
\* valid pattern that matches nothing.
C16_PatternErrorIsDistinct ==
    (stub.op = "findElementsWherePropValueEquals" /\ stub.isRegEx
        /\ ~validPattern(stub.matchStr)) =>
        /\ stub.pc # "rejected"
        /\ \A k \in FilteredReports :
              /\ stub.reports[k].matching = << >>
              /\ stub.reports[k].patternError
              /\ stub.reports[k].msg # "noElementsWithValue"

\* Two strings are the same up to the case of their letters.
CasePairs == { << "C", "c" >>, << "O", "o" >>, << "N", "n" >>, << "R", "r" >>,
               << "E", "e" >>, << "T", "t" >> }
SameUpToCase(a, b) ==
    /\ Len(a) = Len(b)
    /\ \A i \in DOMAIN a :
          a[i] = b[i] \/ << a[i], b[i] >> \in CasePairs \/ << b[i], a[i] >> \in CasePairs

\* C17: without isRegEx, the case-insensitive filter keeps a string value
\* that differs from the pattern in letter case only ("Concrete" against
\* "CONCRETE"), and the case-sensitive filter keeps a value only when it is
\* identical to the pattern, so it rejects that pair.
C17_ExactMatchCaseModes ==
    ~stub.isRegEx =>
        \A k \in FilteredReports :
            LET r == stub.reports[k]
            IN  IF stub.isCaseInsensitive
                THEN \A v \in DOMAIN r.propValues :
                        (r.propValues[v].value.t = "string"
                            /\ SameUpToCase(r.propValues[v].value.s, stub.matchStr)) =>
                            \E m \in DOMAIN r.matching : r.matching[m] = r.propValues[v]
                ELSE \A m \in DOMAIN r.matching :
                        /\ r.matching[m].value.s = stub.matchStr
                        /\ \E v \in DOMAIN r.propValues : r.propValues[v] = r.matching[m]

\* C17 witness: the case-insensitive filter for "CONCRETE" has kept a
\* PropertyValue whose value is "Concrete".
C17_Witness ==
    /\ ~stub.isRegEx /\ stub.isCaseInsensitive /\ stub.matchStr = CONCRETE
    /\ \E k \in FilteredReports :
          \E m \in DOMAIN stub.reports[k].matching :
              stub.reports[k].matching[m].value = Str(Concrete)

\* The data type of a descriptor by name.
TypeName(attr) == getName(NumberArg(attr.dataType))

\* The last submission validated this value for a descriptor of this type.
Validated(typeName, value) ==
    /\ form.result.called
    /\ form.result.propInfo # << >>
    /\ TypeName(form.result.propInfo[1]) = typeName
    /\ form.result.value = value

\* C18: for a descriptor of type Integer, validation rejects the
\* non-integral number "3.5" with the "whole number" reason, rejects text
\* that is no number with the "valid number" reason, and accepts "3" and
\* "-3"; for a descriptor of type Float it accepts "3.5".
C18_IntegerAndFloatValidation ==
    /\ Validated("Integer", << "3", ".", "5" >>)
          => ~form.result.returned.valid /\ form.result.returned.error = "wholeNumber"
    /\ Validated("Integer", << "y", "e", "s" >>)
          => ~form.result.returned.valid /\ form.result.returned.error = "validNumber"
    /\ Validated("Integer", << "3" >>) => form.result.returned.valid
    /\ Validated("Integer", << "-", "3" >>) => form.result.returned.valid
    /\ Validated("Float", << "3", ".", "5" >>) => form.result.returned.valid

\* C19: for a descriptor of type Boolean, validation accepts "true" and
\* "false" and reports every other value as invalid.
C19_BooleanCanonicalTokens ==
    \A value \in FormValues :
        Validated("Boolean", value)
           => (form.result.returned.valid
                 <=> value \in { << "t", "r", "u", "e" >>, << "f", "a", "l", "s", "e" >> })

\* C20: no failure leaves a stub: whatever the facility, schema and scan
\* requests of getQualifiedProperty, scanForProperty, scanForUserProps and
\* findElementsWherePropValueEquals end in, the promise the stub returned
\* never rejects, and a stub in which a request failed has caught the
\* failure and returned.
C20_NoFailureEscapes ==
    /\ stub.pc # "rejected"
    /\ stub.failed => stub.pc = "done" /\ stub.caught

\* C20 witness: a stub that had reported on one model returned after a
\* request for a later model failed.
C20_Witness ==
    /\ stub.pc = "done" /\ stub.failed /\ stub.caught
    /\ stub.i = 2 /\ Len(stub.reports) = 1

\* The requests the stub has issued for the model at position j of its loop.
RequestsForPosition(j) ==
    { e \in DOMAIN stubLog : stubLog[e].req # "facility" /\ stubLog[e].urn = stub.models[j] }

\* C21: a failure confined to one model does not end the read for the
\* others: when the schema request or the scan of the model at position i
\* fails, the stub still goes on to every model at a later position, so a
\* stub that has returned has issued a request for each model of the
\* facility.
C21_LaterModelsStillProcessed ==
    stub.pc = "done" => \A j \in DOMAIN stub.models : RequestsForPosition(j) # {}

\* The categories and the attributes the cache holds.
CachedCategories ==
    LET attrs == cachedAttributes(schemaCache)
    IN  { attrs[i].category : i \in DOMAIN attrs }

\* A list in case-insensitive order: no string stands before one that
\* precedes it when letter case is ignored.
InBaseOrder(list) ==
    \A i, j \in DOMAIN list : i < j => ~localeCompareBefore(list[j], list[i])

ListsCategories(list) ==
    /\ { list[i] : i \in DOMAIN list } = CachedCategories
    /\ InBaseOrder(list)

\* C22, as stated: getUniqueCategoryNames returns every category of the
\* cached attributes and no other string, in case-insensitive order, and
\* lists no category twice, two categories that differ only in letter case
\* counting as one.
C22_OncePerCategoryUpToCase ==
    [][ (lastLookup' # lastLookup /\ lastLookup'.op = "getUniqueCategoryNames") =>
          /\ ListsCategories(lastLookup'.found)
          /\ \A i, j \in DOMAIN lastLookup'.found :
                i # j => baseLetters(lastLookup'.found[i]) # baseLetters(lastLookup'.found[j])
      ]_vars

\* C22, amended: getUniqueCategoryNames returns every category string of the
\* cached attributes exactly once and no other string, in case-insensitive
\* order; categories that differ only in letter case are different strings
\* and each of them is listed.
C22_OncePerCategoryString ==
    [][ (lastLookup' # lastLookup /\ lastLookup'.op = "getUniqueCategoryNames") =>
          /\ ListsCategories(lastLookup'.found)
          /\ \A i, j \in DOMAIN lastLookup'.found :
                i # j => lastLookup'.found[i] # lastLookup'.found[j]
      ]_vars

\* C22 witness: two cached models share categories, and the list carries
\* each once, "Id" and "ID" both.
C22_Witness ==
    /\ lastLookup.op = "getUniqueCategoryNames"
    /\ lastLookup.found = << "Dim", "Id", "ID" >>
    /\ \E i, j \in DOMAIN schemaCache :
          /\ i # j
          /\ \E a \in DOMAIN schemaCache[i].entry.attributes,
                b \in DOMAIN schemaCache[j].entry.attributes :
                schemaCache[i].entry.attributes[a].category
                   = schemaCache[j].entry.attributes[b].category

\* The names of the cached attributes of one category, and of all.
CachedNamesOf(category) ==
    LET attrs == cachedAttributes(schemaCache)
    IN  { attrs[i].name : i \in { k \in DOMAIN attrs : attrs[k].category = category } }

CachedNames ==
    LET attrs == cachedAttributes(schemaCache)
    IN  { attrs[i].name : i \in DOMAIN attrs }

\* A list that carries exactly the strings of a set, each once.
ListsExactly(list, strings) ==
    /\ { list[i] : i \in DOMAIN list } = strings
    /\ \A i, j \in DOMAIN list : i # j => list[i] # list[j]

\* C23, as stated: getUniquePropertyNames returns exactly the distinct names
\* of the cached attributes whose category equals the filter, for every
\* filter that is supplied, the empty string included; without a filter it
\* returns the distinct names of all cached attributes.
C23_EveryFilterRestricts ==
    [][ (lastLookup' # lastLookup /\ lastLookup'.op = "getUniquePropertyNames") =>
          ListsExactly(lastLookup'.found,
                       IF lastLookup'.filter = NoArgument THEN CachedNames
                       ELSE CachedNamesOf(lastLookup'.filter[1]))
      ]_vars

\* C23, amended: getUniquePropertyNames returns exactly the distinct names
\* of the cached attributes whose category equals the filter for every
\* non-empty filter; without a filter, and with the empty string as filter,
\* it returns the distinct names of all cached attributes.
C23_NonEmptyFilterRestricts ==
    [][ (lastLookup' # lastLookup /\ lastLookup'.op = "getUniquePropertyNames") =>
          ListsExactly(lastLookup'.found,
                       IF lastLookup'.filter \in { NoArgument, Argument("") }
                       THEN CachedNames
                       ELSE CachedNamesOf(lastLookup'.filter[1]))
      ]_vars

\* C23 witness: the cache holds names of several categories and the list
\* for the category "Id" carries its name only.
C23_Witness ==
    /\ lastLookup.op = "getUniquePropertyNames"
    /\ lastLookup.filter = Argument("Id")
    /\ lastLookup.found = << "Mark" >>
    /\ "Width" \in CachedNames

\* C24: validation precedes the write: a run of the write form's Execute
\* handler whose value failed validation has alerted the reason validate
\* gave and has not invoked the write stub, and a run that invoked the write
\* stub had a valid value.
C24_ValidationPrecedesWrite ==
    \A k \in DOMAIN exec.runs :
        exec.runs[k].trigger = "executeBtn" =>
            /\ exec.runs[k].invoked => exec.runs[k].validation.valid
            /\ ~exec.runs[k].validation.valid =>
                  /\ ~exec.runs[k].invoked
                  /\ exec.runs[k].alert = exec.runs[k].validation.error
                  /\ exec.runs[k].alert # "none"

\* C24 witness: one click was stopped by a missing value, a later one
\* invoked the write stub.
C24_Witness ==
    \E k, l \in DOMAIN exec.runs :
        /\ k < l
        /\ exec.runs[k].trigger = "executeBtn" /\ ~exec.runs[k].invoked
        /\ exec.runs[k].alert = "enterValue"
        /\ exec.runs[l].trigger = "executeBtn" /\ exec.runs[l].invoked

\* The runs a trigger started whose stub has not settled.
PendingRuns(trigger) ==
    { k \in DOMAIN exec.runs :
        exec.runs[k].trigger = trigger /\ exec.runs[k].promise = "pending" }

\* C29: a stub trigger is disabled exactly while a stub it started has not
\* settled: it is disabled from its click until the stub's promise settles
\* and enabled again afterwards, whether the stub resolved, rejected, threw
\* or was not invoked because of a validation error; so no two executions
\* of one trigger overlap.
C29_TriggerDisabledWhileRunning ==
    \A trigger \in Triggers :
        /\ Cardinality(PendingRuns(trigger)) <= 1
        /\ exec.disabled[trigger] <=> PendingRuns(trigger) # {}

\* C29 witness: a trigger whose first stub was rejected is running its
\* second one, disabled.
C29_Witness ==
    \E k, l \in DOMAIN exec.runs :
        /\ k < l /\ exec.runs[k].trigger = exec.runs[l].trigger
        /\ exec.runs[k].promise = "rejected"
        /\ exec.runs[l].promise = "pending"
        /\ exec.disabled[exec.runs[l].trigger]

\* Does the exact-match filter keep this PropertyValue for the stub's
\* pattern, in the case-sensitive or the case-insensitive mode?
KeptBy(pv, isCaseInsensitive) ==
    matchingProps(<< pv >>, stub.matchStr, FALSE, isCaseInsensitive).matching # << >>

NoUpperCase(chars) == toLowerCase(chars) = chars

\* C25: without isRegEx the two modes differ by the lower-casing only: a
\* PropertyValue the case-sensitive filter keeps is kept by the
\* case-insensitive one, and when neither the pattern nor the value's
\* string form has an upper-case letter both filters decide alike, also for
\* a value that is a number.
C25_ModesDifferByCaseOnly ==
    (stub.op = "findElementsWherePropValueEquals" /\ ~stub.isRegEx) =>
        \A k \in FilteredReports :
            LET r == stub.reports[k]
            IN  /\ r.matching = matchingProps(r.propValues, stub.matchStr, FALSE,
                                              stub.isCaseInsensitive).matching
                /\ \A v \in DOMAIN r.propValues :
                      /\ KeptBy(r.propValues[v], FALSE) => KeptBy(r.propValues[v], TRUE)
                      /\ (NoUpperCase(stub.matchStr)
                            /\ NoUpperCase(String(r.propValues[v].value)))
                           => (KeptBy(r.propValues[v], FALSE) <=> KeptBy(r.propValues[v], TRUE))

\* C26: after clearSchemaCache the cache holds only entries whose schema
\* fetch was issued after that clear: a load that was in flight when the
\* clear ran does not store its entry afterwards.
C26_NoEntryFromBeforeClear ==
    \A i \in DOMAIN schemaCache : schemaCache[i].entry.epoch = epoch

\* Call c fetched in the current epoch, its fetch failed, and it has
\* completed.
FailedLoadCompleted(c) ==
    /\ calls[c].pc = "resolved" /\ ~calls[c].hit
    /\ FetchFailed(c)
    /\ calls[c].epoch = epoch

\* C27: a failed schema fetch is memoized like a successful one.  When a
\* load whose fetch failed completes, the cache holds an entry with an
\* empty attribute list for its model and areSchemasLoaded is true; every
\* load call made for that model afterwards and before the next clear
\* returns an entry with an empty attribute list and issues no fetch.
C27_FailureMemoized ==
    [][ /\ \A c \in DOMAIN calls :
              (calls[c].pc \in {"fetch", "json"} /\ calls'[c].pc = "resolved"
                  /\ calls'[c].got.kind \in FailureKinds) =>
                  /\ CacheHas(schemaCache', calls[c].urn)
                  /\ CacheGet(schemaCache', calls[c].urn).attributes = << >>
                  /\ areSchemasLoaded(schemaCache')
        /\ \A d \in (DOMAIN calls') \ (DOMAIN calls) :
              \A c \in DOMAIN calls :
                  (FailedLoadCompleted(c) /\ calls[c].urn = calls'[d].urn) =>
                      /\ calls'[d].hit
                      /\ calls'[d].result # << >>
                      /\ calls'[d].result[1].attributes = << >>
                      /\ fetchCount'[calls[c].urn] = fetchCount[calls[c].urn]
      ]_vars

Max(S) == CHOOSE x \in S : \A y \in S : y <= x

\* The index of an entry agrees with its attribute list.
IndexConsistent(entry) ==
    /\ DOMAIN entry.lookup = { entry.attributes[j].id : j \in DOMAIN entry.attributes }
    /\ \A id \in DOMAIN entry.lookup :
          entry.lookup[id] =
             entry.attributes[Max({ j \in DOMAIN entry.attributes :
                                      entry.attributes[j].id = id })]

\* C28: in every cache state the identifier index of each entry has the ids
\* of the entry's attributes as its keys, and maps each id to the attribute
\* of the list that carries it, the last one when an id occurs more than
\* once.
C28_IndexMatchesAttributes ==
    \A i \in DOMAIN schemaCache : IndexConsistent(schemaCache[i].entry)

\* C28 witness: a cached entry whose attribute list repeats the id "z:c";
\* the index maps it to the later attribute.
C28_Witness ==
    \E i \in DOMAIN schemaCache :
        /\ schemaCache[i].entry.attributes = SchemaB
        /\ schemaCache[i].entry.lookup["z:c"] = SchemaB[4]

\* C30: once every loadFacility call has finished, each having received its
\* facility, the facility whose information and stubs are shown is the one
\* in currentFacilityURN, the last one selected, in whatever order the
\* responses of overlapping loads arrived; and a call for the current
\* facility starts no request.
C30_ShownFacilityIsCurrent ==
    /\ (facLoads # << >>
          /\ \A k \in DOMAIN facLoads :
                facLoads[k].pc = "done" /\ facLoads[k].info = "info")
        => /\ currentFacilityURN = facLoads[Len(facLoads)].urn
           /\ shown.info = currentFacilityURN
           /\ shown.stubs = currentFacilityURN
    /\ \A k \in DOMAIN facLoads : k > 1 => facLoads[k].urn # facLoads[k - 1].urn

====
